---------------------------- MODULE Spec2Model ----------------------------
(***************************************************************************)
(* A model of the Crosshair backend (Kaztic/crosshair, backend/app):       *)
(* the /improve-code endpoint (routes.py) and the response parser, HTML    *)
(* formatter and diff engine of services/gemini_service.py.                *)
(*                                                                         *)
(* Text is modelled as a sequence of one-character strings, so that        *)
(* split, strip, the regular expression of extract_precise_edits and the   *)
(* prefix tests of generate_diff_info are computed character by character. *)
(***************************************************************************)
EXTENDS Integers, Sequences, FiniteSets, TLC

VARIABLES
    pc,           \* control position of the request handler / of the function harness
    request,      \* the CodeImproveRequest being handled
    full_prompt,  \* the prompt handed to generate_code / improve_code
    llm_calls,    \* number of calls made to the LLM collaborator for this request
    response,     \* the HTTP response of the endpoint
    arg,          \* the input of the function under check (function harnesses)
    result        \* the value the function returned (function harnesses)

vars == <<pc, request, full_prompt, llm_calls, response, arg, result>>

----------------------------------------------------------------------------
(* Bounds of the model.                                                    *)

\* Fence blocks in a raw response drawn by InitParse.
MaxBlocks == 2
\* Lines of each text handed to generate_diff_info.
MaxDiffLines == 3
\* Lines of the text handed to format_explanation_as_html.
MaxHtmlLines == 3
\* Messages of a conversation history.
MaxHistory == 2
\* Requests in flight at the same time.
MaxHandlers == 2

----------------------------------------------------------------------------
(* Python str operations on character sequences.                           *)

NL == <<"\n">>
\* The backquote character (a TLA+ string cannot hold one).
BQ == "BACKQUOTE"
\* The triple-backquote fence delimiter.
FENCE == <<BQ, BQ, BQ>>
Digits == {"0", "1", "2", "3", "4", "5", "6", "7", "8", "9"}

\* str.isspace for the characters of the model's alphabet.
IsSpace(c) == c \in {" ", "\n", "\t"}

RECURSIVE LStrip(_)
LStrip(s) ==
    IF s # <<>> /\ IsSpace(Head(s)) THEN LStrip(Tail(s)) ELSE s

RECURSIVE RStrip(_)
RStrip(s) ==
    IF s # <<>> /\ IsSpace(s[Len(s)]) THEN RStrip(SubSeq(s, 1, Len(s) - 1)) ELSE s

\* str.strip()
Strip(s) == RStrip(LStrip(s))

\* str.startswith(p)
StartsWith(s, p) == Len(s) >= Len(p) /\ SubSeq(s, 1, Len(p)) = p

\* str.find(sep, i), 1-based; 0 when sep does not occur at or after i.
RECURSIVE FindFrom(_, _, _)
FindFrom(s, sep, i) ==
    IF i + Len(sep) - 1 > Len(s) THEN 0
    ELSE IF SubSeq(s, i, i + Len(sep) - 1) = sep THEN i
    ELSE FindFrom(s, sep, i + 1)

\* sep in s
Contains(s, sep) == FindFrom(s, sep, 1) # 0

\* str.split(sep): always at least one part.
RECURSIVE Split(_, _)
Split(s, sep) ==
    LET k == FindFrom(s, sep, 1)
    IN  IF k = 0 THEN <<s>>
        ELSE <<SubSeq(s, 1, k - 1)>> \o Split(SubSeq(s, k + Len(sep), Len(s)), sep)

\* str.split(sep, 1): one part, or two when sep occurs.
Split1(s, sep) ==
    LET k == FindFrom(s, sep, 1)
    IN  IF k = 0 THEN <<s>>
        ELSE <<SubSeq(s, 1, k - 1), SubSeq(s, k + Len(sep), Len(s))>>

\* str.split() without arguments: the maximal runs of non-whitespace.
RECURSIVE TakeWord(_)
TakeWord(s) ==
    IF s = <<>> \/ IsSpace(Head(s)) THEN <<>> ELSE <<Head(s)>> \o TakeWord(Tail(s))

RECURSIVE SplitWs(_)
SplitWs(s) ==
    LET t == LStrip(s)
        w == TakeWord(t)
    IN  IF t = <<>> THEN <<>>
        ELSE <<w>> \o SplitWs(SubSeq(t, Len(w) + 1, Len(t)))

\* sep.join(parts)
RECURSIVE Join(_, _)
Join(parts, sep) ==
    IF parts = <<>> THEN <<>>
    ELSE IF Len(parts) = 1 THEN parts[1]
    ELSE parts[1] \o sep \o Join(Tail(parts), sep)

\* str.splitlines() for texts whose only line boundary is "\n": a final
\* newline ends the last line and starts no empty one.
splitlines(s) ==
    IF s = <<>> THEN <<>>
    ELSE IF s[Len(s)] = "\n" THEN Split(SubSeq(s, 1, Len(s) - 1), NL)
    ELSE Split(s, NL)

\* int(s) for a string of decimal digits.
RECURSIVE int(_)
int(s) ==
    IF s = <<>> THEN 0
    ELSE 10 * int(SubSeq(s, 1, Len(s) - 1))
         + (CHOOSE d \in 0..9 : <<"0", "1", "2", "3", "4", "5", "6", "7", "8", "9">>[d + 1] = s[Len(s)])

\* The maximal prefix of s made of digits (the match of \d* at the start of s).
RECURSIVE DigitRun(_)
DigitRun(s) ==
    IF s # <<>> /\ Head(s) \in Digits THEN <<Head(s)>> \o DigitRun(Tail(s)) ELSE <<>>

----------------------------------------------------------------------------
(* services/gemini_service.py: format_explanation_as_html                  *)

UL_OPEN  == <<"<", "u", "l", ">">>
UL_CLOSE == <<"<", "/", "u", "l", ">">>
BR       == <<"<", "b", "r", ">">>
LI(s)    == <<"<", "l", "i", ">">> \o s \o <<"<", "/", "l", "i", ">">>
P(s)     == <<"<", "p", ">">> \o s \o <<"<", "/", "p", ">">>

\* The three non-ASCII characters of the third prefix of the bullet test, as
\* the source file holds them: a-circumflex, euro sign, cent sign.
A_CIRC == "A_CIRCUMFLEX"
EURO   == "EURO_SIGN"
CENT   == "CENT_SIGN"

\* The tuple of prefixes of the bullet test: "- ", "* " and the four
\* characters the source file holds for the third one.
BulletPrefixes == {<<"-", " ">>, <<"*", " ">>, <<A_CIRC, EURO, CENT, " ">>}

IsBullet(stripped) == \E p \in BulletPrefixes : StartsWith(stripped, p)

\* Mutant of HtmlStep: a blank line closes an open list and appends nothing
\* else.
HtmlStep_skip_blank(line, in_list) ==
    LET stripped == Strip(line)
    IN  IF stripped = <<>>
        THEN [out |-> (IF in_list THEN UL_CLOSE ELSE <<>>), in_list |-> FALSE]
        ELSE IF IsBullet(stripped)
        THEN [out |-> (IF in_list THEN <<>> ELSE UL_OPEN)
                        \o LI(Strip(SubSeq(stripped, 3, Len(stripped)))),
              in_list |-> TRUE]
        ELSE [out |-> (IF in_list THEN UL_CLOSE ELSE <<>>) \o P(stripped),
              in_list |-> FALSE]

\* The loop body for one line: the html_lines it appends and the new in_list.
HtmlStep(line, in_list) ==
    LET stripped == Strip(line)
    IN  IF stripped = <<>>
        THEN [out |-> (IF in_list THEN UL_CLOSE ELSE <<>>) \o BR, in_list |-> FALSE]
        ELSE IF IsBullet(stripped)
        THEN [out |-> (IF in_list THEN <<>> ELSE UL_OPEN)
                        \o LI(Strip(SubSeq(stripped, 3, Len(stripped)))),
              in_list |-> TRUE]
        ELSE [out |-> (IF in_list THEN UL_CLOSE ELSE <<>>) \o P(stripped),
              in_list |-> FALSE]

RECURSIVE HtmlLoop(_, _)
HtmlLoop(lines, in_list) ==
    IF lines = <<>> THEN (IF in_list THEN UL_CLOSE ELSE <<>>)
    ELSE LET st == HtmlStep(Head(lines), in_list)
         IN  st.out \o HtmlLoop(Tail(lines), st.in_list)

format_explanation_as_html(explanation) ==
    HtmlLoop(Split(explanation, NL), FALSE)

----------------------------------------------------------------------------
(* services/gemini_service.py: parse_gemini_response                       *)

\* One odd-indexed part of the split on the fence delimiter, turned into the
\* dict appended to code_blocks.
CodeBlock(part) ==
    LET code_block == Strip(part)
        code_lines == Split1(code_block, NL)
    IN  IF Contains(code_lines[1], <<":">>) /\ Len(Split(code_lines[1], <<":">>)) >= 3
        THEN [spec |-> code_lines[1],
              code |-> IF Len(code_lines) > 1 THEN code_lines[2] ELSE <<>>]
        ELSE IF /\ Len(code_lines) > 1
                /\ ~StartsWith(code_lines[1], <<" ">>)
                /\ Len(SplitWs(code_lines[1])) <= 2
        THEN [spec |-> <<>>, code |-> code_lines[2]]
        ELSE [spec |-> <<>>, code |-> code_block]

\* Mutant of EveryOther: the entries are taken last to first.
RECURSIVE EveryOther_reversed(_, _)
EveryOther_reversed(parts, first) ==
    IF first + 1 > Len(parts) THEN <<>>
    ELSE EveryOther_reversed(parts, first + 2) \o <<parts[first + 1]>>

\* The entries of parts at the 0-based indices first, first + 2, ...
RECURSIVE EveryOther(_, _)
EveryOther(parts, first) ==
    IF first + 1 > Len(parts) THEN <<>>
    ELSE <<parts[first + 1]>> \o EveryOther(parts, first + 2)

\* Mutant of FormatBlock: the code is returned without the fence around it.
FormatBlock_unwrapped(block) == block.code

\* Mutant of FormatBlock: the recognised header is not re-attached.
FormatBlock_bare(block) == FENCE \o NL \o block.code \o FENCE

\* f-string of one block of formatted_blocks.
FormatBlock(block) ==
    IF block.spec # <<>>
    THEN FENCE \o block.spec \o NL \o block.code \o FENCE
    ELSE FENCE \o NL \o block.code \o FENCE

RECURSIVE MapCodeBlock(_)
MapCodeBlock(parts) ==
    IF parts = <<>> THEN <<>> ELSE <<CodeBlock(Head(parts))>> \o MapCodeBlock(Tail(parts))

RECURSIVE MapFormatBlock(_)
MapFormatBlock(blocks) ==
    IF blocks = <<>> THEN <<>> ELSE <<FormatBlock(Head(blocks))>> \o MapFormatBlock(Tail(blocks))

\* Mutant of LineScan: the lines read while in_code is false are taken as
\* code and the others as explanation.
RECURSIVE LineScan_swapped(_, _)
LineScan_swapped(lines, in_code) ==
    IF lines = <<>> THEN [code_lines |-> <<>>, explanation_lines |-> <<>>]
    ELSE IF StartsWith(Strip(Head(lines)), FENCE)
    THEN LineScan_swapped(Tail(lines), ~in_code)
    ELSE LET rest == LineScan_swapped(Tail(lines), in_code)
         IN  IF ~in_code
             THEN [rest EXCEPT !.code_lines = <<Head(lines)>> \o @]
             ELSE [rest EXCEPT !.explanation_lines = <<Head(lines)>> \o @]

\* The line scan of the branch taken when no code block was found.
RECURSIVE LineScan(_, _)
LineScan(lines, in_code) ==
    IF lines = <<>> THEN [code_lines |-> <<>>, explanation_lines |-> <<>>]
    ELSE IF StartsWith(Strip(Head(lines)), FENCE)
    THEN LineScan(Tail(lines), ~in_code)
    ELSE LET rest == LineScan(Tail(lines), in_code)
         IN  IF in_code
             THEN [rest EXCEPT !.code_lines = <<Head(lines)>> \o @]
             ELSE [rest EXCEPT !.explanation_lines = <<Head(lines)>> \o @]

\* improved_code and explanation as they stand after the conversion to HTML,
\* before the test of the last statement.
ConvertedResponse(response_text) ==
    LET parts == Split(response_text, FENCE)
        code_blocks == MapCodeBlock(EveryOther(parts, 1))
        scan == LineScan(Split(response_text, NL), FALSE)
        improved_code ==
            IF code_blocks # <<>>
            THEN Join(MapFormatBlock(code_blocks), <<"\n", "\n">>)
            ELSE Join(scan.code_lines, NL)
        text ==
            IF code_blocks # <<>>
            THEN Strip(Join(EveryOther(parts, 0), NL))
            ELSE Join(scan.explanation_lines, NL)
    IN  [improved_code |-> improved_code,
         explanation |-> format_explanation_as_html(text)]

\* The test `not improved_code and not explanation` of the last statement.
AllElseFails(converted) == converted.improved_code = <<>> /\ converted.explanation = <<>>

parse_gemini_response(response_text) ==
    LET converted == ConvertedResponse(response_text)
    IN  IF AllElseFails(converted)
        THEN [improved_code |-> response_text, explanation |-> P(response_text)]
        ELSE converted

----------------------------------------------------------------------------
(* routes.py: extract_precise_edits                                        *)

\* One attempt of the pattern FENCE(\d+):(\d+):([^\n]+)\n([\s\S]*?)FENCE at the
\* start of s: the groups and the length matched, or matched = FALSE.
MatchEdit(s) ==
    LET a1 == SubSeq(s, 4, Len(s))
        g1 == DigitRun(a1)
        a2 == SubSeq(a1, Len(g1) + 2, Len(a1))
        g2 == DigitRun(a2)
        a3 == SubSeq(a2, Len(g2) + 2, Len(a2))
        nl == FindFrom(a3, NL, 1)
        g3 == SubSeq(a3, 1, nl - 1)
        a4 == SubSeq(a3, nl + 1, Len(a3))
        close == FindFrom(a4, FENCE, 1)
        ok == /\ StartsWith(s, FENCE)
              /\ g1 # <<>> /\ Len(a1) > Len(g1) /\ a1[Len(g1) + 1] = ":"
              /\ g2 # <<>> /\ Len(a2) > Len(g2) /\ a2[Len(g2) + 1] = ":"
              /\ nl > 1
              /\ close > 0
    IN  IF ok
        THEN [matched |-> TRUE,
              edit |-> [startLine |-> int(g1), endLine |-> int(g2),
                        filepath |-> g3, code |-> SubSeq(a4, 1, close - 1)],
              length |-> 3 + Len(g1) + 1 + Len(g2) + 1 + nl + (close - 1) + 3]
        ELSE [matched |-> FALSE, edit |-> <<>>, length |-> 0]

\* re.finditer: the non-overlapping matches, scanning from the left.
RECURSIVE FindIter(_)
FindIter(s) ==
    IF Len(s) < 3 THEN <<>>
    ELSE LET m == MatchEdit(s)
         IN  IF m.matched
             THEN <<m.edit>> \o FindIter(SubSeq(s, m.length + 1, Len(s)))
             ELSE FindIter(Tail(s))

\* Mutant of extract_precise_edits: re.search in place of re.finditer, so
\* that only the first match is returned.
extract_precise_edits_first_only(improved_code) ==
    LET all == FindIter(improved_code)
    IN  IF all = <<>> THEN <<>> ELSE <<all[1]>>

extract_precise_edits(improved_code) == FindIter(improved_code)

----------------------------------------------------------------------------
(* difflib (Python standard library), as generate_diff_info uses it:       *)
(* SequenceMatcher(None, a, b) without junk, on fewer than 200 lines (the  *)
(* popularity heuristic applies from 200), and unified_diff with n = 3 and *)
(* lineterm = ''.  Indices are 0-based as in difflib; a[i1:i2] is          *)
(* SubSeq(a, i1 + 1, i2).                                                  *)

Min(x, y) == IF x <= y THEN x ELSE y
Max(x, y) == IF x >= y THEN x ELSE y

\* The length of the longest common run of a[i:ahi] and b[j:bhi] starting at (i, j).
RECURSIVE RunLength(_, _, _, _, _, _)
RunLength(a, b, i, ahi, j, bhi) ==
    IF i < ahi /\ j < bhi /\ a[i + 1] = b[j + 1]
    THEN 1 + RunLength(a, b, i + 1, ahi, j + 1, bhi)
    ELSE 0

\* SequenceMatcher.find_longest_match: the longest matching block of
\* a[alo:ahi] and b[blo:bhi]; of the longest ones the one that starts
\* earliest in a, and of those the one that starts earliest in b.
find_longest_match(a, b, alo, ahi, blo, bhi) ==
    LET Starts == (alo..(ahi - 1)) \X (blo..(bhi - 1))
        Size(p) == RunLength(a, b, p[1], ahi, p[2], bhi)
        best == IF Starts = {} THEN 0
                ELSE CHOOSE k \in 0..(ahi - alo) :
                        /\ \E p \in Starts : Size(p) = k
                        /\ \A p \in Starts : Size(p) <= k
    IN  IF best = 0 THEN <<alo, blo, 0>>
        ELSE LET Longest == {p \in Starts : Size(p) = best}
                 i == CHOOSE x \in {p[1] : p \in Longest} :
                         \A p \in Longest : x <= p[1]
                 j == CHOOSE y \in {p[2] : p \in {q \in Longest : q[1] = i}} :
                         \A p \in {q \in Longest : q[1] = i} : y <= p[2]
             IN  <<i, j, best>>

\* The matching blocks get_matching_blocks collects, in sorted order.
RECURSIVE MatchingBlocks(_, _, _, _, _, _)
MatchingBlocks(a, b, alo, ahi, blo, bhi) ==
    LET x == find_longest_match(a, b, alo, ahi, blo, bhi)
        i == x[1]
        j == x[2]
        k == x[3]
    IN  IF k = 0 THEN <<>>
        ELSE (IF alo < i /\ blo < j THEN MatchingBlocks(a, b, alo, i, blo, j) ELSE <<>>)
             \o <<x>>
             \o (IF i + k < ahi /\ j + k < bhi
                 THEN MatchingBlocks(a, b, i + k, ahi, j + k, bhi) ELSE <<>>)

\* Adjacent blocks collapsed into one.
RECURSIVE Collapse(_, _)
Collapse(blocks, cur) ==
    IF blocks = <<>> THEN (IF cur[3] # 0 THEN <<cur>> ELSE <<>>)
    ELSE LET nxt == Head(blocks)
         IN  IF cur[1] + cur[3] = nxt[1] /\ cur[2] + cur[3] = nxt[2]
             THEN Collapse(Tail(blocks), <<cur[1], cur[2], cur[3] + nxt[3]>>)
             ELSE (IF cur[3] # 0 THEN <<cur>> ELSE <<>>) \o Collapse(Tail(blocks), nxt)

get_matching_blocks(a, b) ==
    Collapse(MatchingBlocks(a, b, 0, Len(a), 0, Len(b)), <<0, 0, 0>>)
        \o << <<Len(a), Len(b), 0>> >>

\* SequenceMatcher.get_opcodes: <<tag, i1, i2, j1, j2>>.
RECURSIVE Opcodes(_, _, _)
Opcodes(blocks, i, j) ==
    IF blocks = <<>> THEN <<>>
    ELSE LET ai == Head(blocks)[1]
             bj == Head(blocks)[2]
             size == Head(blocks)[3]
             tag == IF i < ai /\ j < bj THEN "replace"
                    ELSE IF i < ai THEN "delete"
                    ELSE IF j < bj THEN "insert"
                    ELSE ""
         IN  (IF tag # "" THEN << <<tag, i, ai, j, bj>> >> ELSE <<>>)
             \o (IF size # 0 THEN << <<"equal", ai, ai + size, bj, bj + size>> >> ELSE <<>>)
             \o Opcodes(Tail(blocks), ai + size, bj + size)

get_opcodes(a, b) == Opcodes(get_matching_blocks(a, b), 0, 0)

\* The number of context lines of unified_diff (its default).
ContextLines == 3

\* The loop of get_grouped_opcodes: the groups yielded, given the group
\* under construction.
RECURSIVE GroupLoop(_, _)
GroupLoop(codes, group) ==
    IF codes = <<>>
    THEN (IF group # <<>> /\ ~(Len(group) = 1 /\ group[1][1] = "equal")
          THEN <<group>> ELSE <<>>)
    ELSE LET c == Head(codes)
             n == ContextLines
         IN  IF c[1] = "equal" /\ c[3] - c[2] > n + n
             THEN <<Append(group, <<c[1], c[2], Min(c[3], c[2] + n), c[4], Min(c[5], c[4] + n)>>)>>
                  \o GroupLoop(Tail(codes),
                               << <<c[1], Max(c[2], c[3] - n), c[3], Max(c[4], c[5] - n), c[5]>> >>)
             ELSE GroupLoop(Tail(codes), Append(group, c))

\* The fix-up of a leading group and of a trailing group that show no change.
TrimLeading(codes) ==
    IF codes[1][1] = "equal"
    THEN [codes EXCEPT ![1] = <<@[1], Max(@[2], @[3] - ContextLines), @[3],
                                Max(@[4], @[5] - ContextLines), @[5]>>]
    ELSE codes

TrimTrailing(codes) ==
    IF codes[Len(codes)][1] = "equal"
    THEN [codes EXCEPT ![Len(codes)] = <<@[1], @[2], Min(@[3], @[2] + ContextLines),
                                         @[4], Min(@[5], @[4] + ContextLines)>>]
    ELSE codes

\* codes = [("equal", 0, 1, 0, 1)] when there are none.
OrOneEqual(codes) == IF codes = <<>> THEN << <<"equal", 0, 1, 0, 1>> >> ELSE codes

get_grouped_opcodes(a, b) ==
    GroupLoop(TrimTrailing(TrimLeading(OrOneEqual(get_opcodes(a, b)))), <<>>)

\* '{}'.format(k) for k >= 0.
RECURSIVE str(_)
str(k) ==
    LET d == <<"0", "1", "2", "3", "4", "5", "6", "7", "8", "9">>[(k % 10) + 1]
    IN  IF k < 10 THEN <<d>> ELSE str(k \div 10) \o <<d>>

_format_range_unified(start, stop) ==
    LET length == stop - start
    IN  IF length = 1 THEN str(start + 1)
        ELSE str(IF length = 0 THEN start ELSE start + 1) \o <<",">> \o str(length)

RECURSIVE Prefixed(_, _)
Prefixed(prefix, lines) ==
    IF lines = <<>> THEN <<>>
    ELSE <<prefix \o Head(lines)>> \o Prefixed(prefix, Tail(lines))

\* The lines unified_diff yields for the opcodes of one group.
RECURSIVE GroupLines(_, _, _)
GroupLines(a, b, group) ==
    IF group = <<>> THEN <<>>
    ELSE LET c == Head(group)
         IN  (IF c[1] = "equal" THEN Prefixed(<<" ">>, SubSeq(a, c[2] + 1, c[3]))
              ELSE (IF c[1] \in {"replace", "delete"}
                    THEN Prefixed(<<"-">>, SubSeq(a, c[2] + 1, c[3])) ELSE <<>>)
                   \o (IF c[1] \in {"replace", "insert"}
                       THEN Prefixed(<<"+">>, SubSeq(b, c[4] + 1, c[5])) ELSE <<>>))
             \o GroupLines(a, b, Tail(group))

RECURSIVE HunkLines(_, _, _)
HunkLines(a, b, groups) ==
    IF groups = <<>> THEN <<>>
    ELSE LET group == Head(groups)
             first == group[1]
             last == group[Len(group)]
         IN  << <<"@", "@", " ", "-">> \o _format_range_unified(first[2], last[3])
                    \o <<" ", "+">> \o _format_range_unified(first[4], last[5])
                    \o <<" ", "@", "@">> >>
             \o GroupLines(a, b, group)
             \o HunkLines(a, b, Tail(groups))

\* difflib.unified_diff(a, b, fromfile='original', tofile='improved', lineterm='')
unified_diff(a, b) ==
    LET groups == get_grouped_opcodes(a, b)
    IN  IF groups = <<>> THEN <<>>
        ELSE << <<"-", "-", "-", " ", "o", "r", "i", "g", "i", "n", "a", "l">>,
                <<"+", "+", "+", " ", "i", "m", "p", "r", "o", "v", "e", "d">> >>
             \o HunkLines(a, b, groups)

----------------------------------------------------------------------------
(* services/gemini_service.py: generate_diff_info                          *)

\* The counting loop over diff_text.splitlines().
RECURSIVE CountLines(_, _)
CountLines(lines, c) ==
    IF lines = <<>> THEN c
    ELSE LET line == Head(lines)
         IN  IF StartsWith(line, <<"+">>) /\ ~StartsWith(line, <<"+", "+", "+">>)
             THEN CountLines(Tail(lines), [c EXCEPT !.additions = @ + 1])
             ELSE IF StartsWith(line, <<"-">>) /\ ~StartsWith(line, <<"-", "-", "-">>)
             THEN CountLines(Tail(lines), [c EXCEPT !.deletions = @ + 1])
             ELSE CountLines(Tail(lines), c)

\* The raw counts, before the heuristic for changes.
RawCounts(diff_text) == CountLines(splitlines(diff_text), [additions |-> 0, deletions |-> 0])

\* Mutant of PairedChanges: max in place of min.
PairedChanges_max(additions, deletions) == Max(additions, deletions)

\* changes = min(additions, deletions)
PairedChanges(additions, deletions) == Min(additions, deletions)

\* Mutant of generate_diff_info: the improved text is cut at newlines by
\* split, which keeps an empty last line, where the original is cut by
\* splitlines.
generate_diff_info_split(original_code, improved_code) ==
    LET original_lines == splitlines(original_code)
        improved_lines == Split(improved_code, NL)
        diff_text == Join(unified_diff(original_lines, improved_lines), NL)
        raw == RawCounts(diff_text)
        changes == PairedChanges(raw.additions, raw.deletions)
    IN  [additions |-> raw.additions - changes,
         deletions |-> raw.deletions - changes,
         changes |-> changes,
         diff |-> diff_text]

generate_diff_info(original_code, improved_code) ==
    LET original_lines == splitlines(original_code)
        improved_lines == splitlines(improved_code)
        diff_text == Join(unified_diff(original_lines, improved_lines), NL)
        raw == RawCounts(diff_text)
        changes == PairedChanges(raw.additions, raw.deletions)
    IN  [additions |-> raw.additions - changes,
         deletions |-> raw.deletions - changes,
         changes |-> changes,
         diff |-> diff_text]

----------------------------------------------------------------------------
(* The values of the variables a specification does not use.               *)

NoRequest  == [kind |-> "none"]
NoResponse == [kind |-> "none"]
NoArg      == [kind |-> "none"]
NoResult   == [kind |-> "none"]

----------------------------------------------------------------------------
(* Raw LLM responses: prose and fence blocks, rendered to the raw text.    *)

\* A fence block as it stands in the raw text between two delimiters: the
\* header line (the text up to the first newline) and, when there is a
\* newline, the body after it.
Fence(header, has_body, body) == [header |-> header, has_body |-> has_body, body |-> body]

FenceContent(f) == f.header \o (IF f.has_body THEN NL \o f.body ELSE <<>>)

FenceSamples ==
    { Fence(<<"1", ":", "2", ":", "f">>, TRUE, <<"x", "\n">>),
      Fence(<<"1", "2", ":", "3", ":", "a", ":", "b">>, TRUE, <<"x", "\n", " ", "y">>),
      Fence(<<"1", ":", "2", ":", "f">>, FALSE, <<>>),
      Fence(<<"-", "1", ":", "2", ":", "f">>, TRUE, <<"x", "\n">>),
      Fence(<<"a", ":", "b", ":", "f">>, TRUE, <<"x", "\n">>),
      Fence(<<"1", ":", "2", ":">>, TRUE, <<"x">>),
      Fence(<<" ", "1", ":", "2", ":", "f">>, TRUE, <<"x">>),
      Fence(<<"p", "y">>, TRUE, <<"x", "\n">>),
      Fence(<<"p", "y">>, TRUE, <<"u", " ", "v", " ", "w", "\n", "x", "\n">>),
      Fence(<<"u", " ", "v", " ", "w">>, TRUE, <<"x">>),
      Fence(<<>>, TRUE, <<"x", "\n">>),
      Fence(<<>>, TRUE, <<"u", " ", "v", "\n", "x", "\n">>),
      Fence(<<>>, TRUE, <<"u", " ", "v", " ", "w", "\n", "x", "\n">>),
      Fence(<<>>, TRUE, <<"1", ":", "2", ":", "f", "\n", "x", "\n">>),
      Fence(<<"x">>, FALSE, <<>>),
      Fence(<<>>, FALSE, <<>>),
      Fence(<<BQ, "1", ":", "2", ":", "f">>, TRUE, <<"x", "\n">>),
      Fence(<<"1", ":", "2", ":", "f">>, TRUE, <<"x", BQ, " ">>) }

ProseSamples == { <<>>, <<"t", "\n">> }

\* A raw response of n fence blocks: prose[1] FENCE blocks[1] FENCE prose[2] ...
\* The prose before the first fence is one sample, the prose after each
\* fence another.
\* closed: the last fence has its closing delimiter; when it has not, the
\* text ends with the content of the last fence.
ShapesOf(n) ==
    { [blocks |-> b,
       closed |-> c,
       prose |-> [i \in 1..(n + 1) |-> IF i = 1 THEN p[1]
                                        ELSE IF i = n + 1 /\ ~c THEN <<>> ELSE p[2]]] :
        b \in [1..n -> FenceSamples], p \in ProseSamples \X ProseSamples,
        c \in (IF n = 0 THEN {TRUE} ELSE BOOLEAN) }

\* Raw responses without any fence delimiter.
PlainSamples ==
    { <<>>, <<" ">>, <<"\n">>, <<"t">>, <<"-", " ", "a", "\n", "t">>,
      <<"t", "\n", "\n", " ", "u", " ">>, <<BQ, BQ, "x">> }

PlainShapes == { [blocks |-> <<>>, closed |-> TRUE, prose |-> <<p>>] : p \in PlainSamples }

RECURSIVE RenderFrom(_, _)
RenderFrom(sh, i) ==
    IF i > Len(sh.blocks) THEN sh.prose[i]
    ELSE sh.prose[i] \o FENCE \o FenceContent(sh.blocks[i])
            \o (IF i = Len(sh.blocks) /\ ~sh.closed THEN <<>>
                 ELSE FENCE \o RenderFrom(sh, i + 1))

Render(sh) == RenderFrom(sh, 1)

----------------------------------------------------------------------------
(* The parsing pipeline applied to one raw response, as the endpoint       *)
(* applies it when wholeFile is false: parse_gemini_response, then         *)
(* extract_precise_edits on the code representation.                       *)

\* parse_gemini_response, then extract_precise_edits on its first value.
ParseResult(raw) ==
    LET parsed == parse_gemini_response(raw)
    IN  [kind |-> "parse",
         improved_code |-> parsed.improved_code,
         explanation |-> parsed.explanation,
         precise_edits |-> extract_precise_edits(parsed.improved_code)]

InitParse ==
    /\ pc = "call"
    /\ \/ \E n \in 0..MaxBlocks :
             \E sh \in ShapesOf(n) : arg = [kind |-> "parse", shape |-> sh, raw |-> Render(sh)]
       \/ \E sh \in PlainShapes : arg = [kind |-> "parse", shape |-> sh, raw |-> Render(sh)]
    /\ result = NoResult
    /\ request = NoRequest
    /\ full_prompt = <<>>
    /\ llm_calls = 0
    /\ response = NoResponse

ParseResponse ==
    /\ pc = "call"
    /\ arg.kind = "parse"
    /\ result' = ParseResult(arg.raw)
    /\ pc' = "return"
    /\ UNCHANGED <<arg, request, full_prompt, llm_calls, response>>

NextParse == ParseResponse

SpecParse == InitParse /\ [][NextParse]_vars

----------------------------------------------------------------------------
(* services/gemini_service.py: extract_code_from_blocks                    *)

extract_code_from_blocks(text) ==
    LET parts == Split(text, FENCE)
        code_block == Strip(parts[2])
        lines == Split1(code_block, NL)
    IN  IF Len(parts) >= 3
        THEN IF /\ Len(lines) > 1
                /\ (~StartsWith(Strip(lines[1]), <<" ">>) \/ Contains(lines[1], <<":">>))
             THEN lines[2]
             ELSE code_block
        ELSE text

----------------------------------------------------------------------------
(* The partial operations of the parsing layer: subscripts and int().      *)

\* seq[i] for i >= 0 raises IndexError.
IndexError(seq, i) == i \notin 0..(Len(seq) - 1)

\* int(s) raises ValueError: s, trimmed and without a sign, is no digit string.
ValueError(s) ==
    LET t == Strip(s)
        body == IF t # <<>> /\ t[1] \in {"+", "-"} THEN Tail(t) ELSE t
    IN  body = <<>> \/ DigitRun(body) # body

\* A subscript of the loop body of parse_gemini_response raises for this part.
CodeBlock_raises(part) ==
    LET code_block == Strip(part)
        code_lines == Split1(code_block, NL)
        has_spec == /\ Len(code_lines) > 0
                    /\ Contains(code_lines[1], <<":">>)
                    /\ Len(Split(code_lines[1], <<":">>)) >= 3
    IN  \/ Len(code_lines) > 0 /\ IndexError(code_lines, 0)
        \/ has_spec /\ Len(code_lines) > 1 /\ IndexError(code_lines, 1)
        \/ ~has_spec /\ Len(code_lines) > 1 /\ IndexError(code_lines, 0)
        \/ /\ ~has_spec
           /\ Len(code_lines) > 1
           /\ ~StartsWith(code_lines[1], <<" ">>)
           /\ Len(SplitWs(code_lines[1])) <= 2
           /\ IndexError(code_lines, 1)

\* A statement of the try block of parse_gemini_response raises.
parse_gemini_response_raises(response_text) ==
    LET parts == Split(response_text, FENCE)
    IN  \E i \in 1..Len(parts) :
           /\ i % 2 = 1
           /\ i < Len(parts)
           /\ (IndexError(parts, i) \/ CodeBlock_raises(parts[i + 1]))

\* Mutant of extract_code_from_blocks_raises: the first block is read
\* whenever the split gave any part.
extract_code_from_blocks_raises_unguarded(text) ==
    LET parts == Split(text, FENCE)
    IN  Len(parts) >= 1 /\ IndexError(parts, 1)

\* A subscript of extract_code_from_blocks raises.
extract_code_from_blocks_raises(text) ==
    LET parts == Split(text, FENCE)
        lines == Split1(Strip(parts[2]), NL)
    IN  /\ Len(parts) >= 3
        /\ \/ IndexError(parts, 1)
           \/ Len(lines) > 1 /\ IndexError(lines, 0)
           \/ /\ Len(lines) > 1
              /\ (~StartsWith(Strip(lines[1]), <<" ">>) \/ Contains(lines[1], <<":">>))
              /\ IndexError(lines, 1)

\* int() raises for a line number of the match that starts s.
MatchEdit_raises(s) ==
    LET a1 == SubSeq(s, 4, Len(s))
        a2 == SubSeq(a1, Len(DigitRun(a1)) + 2, Len(a1))
    IN  ValueError(DigitRun(a1)) \/ ValueError(DigitRun(a2))

\* A statement of the try block in the loop of extract_precise_edits raises.
RECURSIVE extract_precise_edits_raises(_)
extract_precise_edits_raises(s) ==
    IF Len(s) < 3 THEN FALSE
    ELSE IF MatchEdit(s).matched
    THEN MatchEdit_raises(s)
            \/ extract_precise_edits_raises(SubSeq(s, MatchEdit(s).length + 1, Len(s)))
    ELSE extract_precise_edits_raises(Tail(s))

----------------------------------------------------------------------------
(* Exceptions: the classes the code names and their base classes.          *)

\* The classes an exception of class cls is an instance of.
Bases(cls) ==
    CASE cls \in {"APIKeyError", "ModelError", "RateLimitError"}
            -> {cls, "AIServiceError", "Exception"}
      [] OTHER -> {cls, "Exception"}

isinstance(e, cls) == cls \in Bases(e.cls)

\* What the call of the LLM client may raise: the exceptions of the client
\* library the service names, an OSError (EnvironmentError) and an exception
\* of no class the code names.  mentions_api_key: "api_key" in str(e).lower().
ClientErrors ==
    { [cls |-> c, mentions_api_key |-> k, message |-> <<"str(e)">>] :
        c \in {"BlockedPromptException", "StopCandidateException",
               "InternalServerException", "InvalidArgumentException",
               "RateLimitException", "EnvironmentError", "RuntimeError"},
        k \in BOOLEAN }

\* The except clauses of generate_code and of improve_code (the same in
\* both): the exception that leaves the service.
service_raises(e) ==
    IF isinstance(e, "BlockedPromptException")
    THEN [cls |-> "AIServiceError", mentions_api_key |-> e.mentions_api_key,
          message |-> <<"Your prompt was blocked by the AI service: ">> \o e.message]
    ELSE IF isinstance(e, "StopCandidateException")
    THEN [cls |-> "AIServiceError", mentions_api_key |-> e.mentions_api_key,
          message |-> <<"The AI model stopped generating: ">> \o e.message]
    ELSE IF isinstance(e, "InternalServerException")
    THEN [cls |-> "ModelError", mentions_api_key |-> e.mentions_api_key,
          message |-> <<"Internal server error from AI service: ">> \o e.message]
    ELSE IF isinstance(e, "InvalidArgumentException")
    THEN IF e.mentions_api_key
         THEN [cls |-> "APIKeyError", mentions_api_key |-> TRUE,
               message |-> <<"Invalid API key: ">> \o e.message]
         ELSE [cls |-> "AIServiceError", mentions_api_key |-> FALSE,
               message |-> <<"Invalid argument: ">> \o e.message]
    ELSE IF isinstance(e, "RateLimitException")
    THEN [cls |-> "RateLimitError", mentions_api_key |-> e.mentions_api_key,
          message |-> <<"Rate limit exceeded: ">> \o e.message]
    ELSE e

----------------------------------------------------------------------------
(* routes.py: improve_code_endpoint                                        *)

\* Optional[...] fields of the request.
Some(v) == [present |-> TRUE, value |-> v]
None(default) == [present |-> FALSE, value |-> default]

\* not s or s.strip() == ""
IsBlank(s) == s = <<>> \/ Strip(s) = <<>>

\* request.conversationHistory or []
HistoryOf(req) ==
    IF req.conversationHistory.present THEN req.conversationHistory.value ELSE <<>>

\* request.wholeFile or False
WholeFileOf(req) == req.wholeFile.present /\ req.wholeFile.value

\* The branch taken at line 82.
ModeOf(req) == IF IsBlank(req.code) THEN "GENERATE" ELSE "IMPROVE"

ContextHeader ==
    <<"\n", "\n", "P", "r", "e", "v", "i", "o", "u", "s", " ", "c", "o", "n", "v", "e", "r",
      "s", "a", "t", "i", "o", "n", " ", "c", "o", "n", "t", "e", "x", "t", ":", "\n">>
CurrentRequest ==
    <<"\n", "\n", "C", "u", "r", "r", "e", "n", "t", " ", "r", "e", "q", "u", "e", "s", "t",
      ":", " ">>
UserPrefix == <<"U", "s", "e", "r", ":", " ">>
AssistantPrefix == <<"A", "s", "s", "i", "s", "t", "a", "n", "t", ":", " ">>

\* Mutant of RenderHistory: the messages are rendered last to first.
RECURSIVE RenderHistory_reversed(_)
RenderHistory_reversed(history) ==
    IF history = <<>> THEN <<>>
    ELSE RenderHistory_reversed(Tail(history))
         \o (IF Head(history).role = "user" THEN UserPrefix ELSE AssistantPrefix)
         \o Head(history).content \o NL

\* The loop over conversation_history that extends context.
RECURSIVE RenderHistory(_)
RenderHistory(history) ==
    IF history = <<>> THEN <<>>
    ELSE (IF Head(history).role = "user" THEN UserPrefix ELSE AssistantPrefix)
         \o Head(history).content \o NL \o RenderHistory(Tail(history))

\* full_prompt, built the same way in both branches.
BuildPrompt(req) ==
    IF HistoryOf(req) # <<>>
    THEN ContextHeader \o RenderHistory(HistoryOf(req)) \o CurrentRequest \o req.prompt
    ELSE req.prompt

\* Mutant of http_error: the generic AIServiceError clause is tested before
\* the clauses of its subclasses.
http_error_generic_first(e) ==
    IF isinstance(e, "EnvironmentError")
    THEN [status |-> 500, handled_by |-> "EnvironmentError",
          detail |-> <<"API key not configured. Please check the server configuration.">>]
    ELSE IF isinstance(e, "AIServiceError")
    THEN [status |-> 500, handled_by |-> "AIServiceError",
          detail |-> <<"AI service error: ">> \o e.message]
    ELSE IF isinstance(e, "RateLimitError")
    THEN [status |-> 429, handled_by |-> "RateLimitError",
          detail |-> <<"Rate limit exceeded. Please try again later.">>]
    ELSE IF isinstance(e, "ModelError")
    THEN [status |-> 503, handled_by |-> "ModelError",
          detail |-> <<"AI model service is currently unavailable. Please try again later.">>]
    ELSE [status |-> 500, handled_by |-> "Exception", detail |-> <<"Error processing code">>]

\* The except clauses of the endpoint, in their order: the HTTPException
\* raised for an exception e that leaves the try block.
http_error(e) ==
    IF isinstance(e, "EnvironmentError")
    THEN [status |-> 500, handled_by |-> "EnvironmentError",
          detail |-> <<"API key not configured. Please check the server configuration.">>]
    ELSE IF isinstance(e, "APIKeyError")
    THEN [status |-> 500, handled_by |-> "APIKeyError",
          detail |-> <<"API key issue. Please contact the administrator.">>]
    ELSE IF isinstance(e, "RateLimitError")
    THEN [status |-> 429, handled_by |-> "RateLimitError",
          detail |-> <<"Rate limit exceeded. Please try again later.">>]
    ELSE IF isinstance(e, "ModelError")
    THEN [status |-> 503, handled_by |-> "ModelError",
          detail |-> <<"AI model service is currently unavailable. Please try again later.">>]
    ELSE IF isinstance(e, "AIServiceError")
    THEN [status |-> 500, handled_by |-> "AIServiceError",
          detail |-> <<"AI service error: ">> \o e.message]
    ELSE [status |-> 500, handled_by |-> "Exception", detail |-> <<"Error processing code">>]

\* The HTTPException raised at line 68, inside the try block.
EmptyPromptError ==
    [cls |-> "HTTPException", mentions_api_key |-> FALSE,
     message |-> <<"Prompt cannot be empty">>, status_code |-> 400]

\* diff_info = None
NoDiffInfo == [present |-> FALSE, info |-> [additions |-> 0, deletions |-> 0, changes |-> 0, diff |-> <<>>]]

\* The response of a request that ended in an HTTPException.
ErrorResponse(e) ==
    [kind |-> "error",
     status |-> http_error(e).status,
     detail |-> http_error(e).detail,
     handled_by |-> http_error(e).handled_by,
     raised |-> e.cls,
     improvedCode |-> <<>>, explanation |-> <<>>, preciseEdits |-> <<>>,
     diffInfo |-> NoDiffInfo]

\* Mutant of PreciseEditsFor: the wholeFile flag is ignored.
PreciseEditsFor_ignoring_flag(code_representation, whole_file) ==
    extract_precise_edits(code_representation)

\* extract_precise_edits(...) if not whole_file else []
PreciseEditsFor(code_representation, whole_file) ==
    IF ~whole_file THEN extract_precise_edits(code_representation) ELSE <<>>

\* Mutant of DiffInfoFor: improve_code computes the diff whatever whole_file.
DiffInfoFor_any_improve(mode, code, improved_code, whole_file) ==
    IF mode = "IMPROVE"
    THEN [present |-> TRUE,
          info |-> generate_diff_info(code, extract_code_from_blocks(improved_code))]
    ELSE NoDiffInfo

\* diff_info of generate_code (always None) and of improve_code.
DiffInfoFor(mode, code, improved_code, whole_file) ==
    IF mode = "IMPROVE" /\ whole_file
    THEN [present |-> TRUE,
          info |-> generate_diff_info(code, extract_code_from_blocks(improved_code))]
    ELSE NoDiffInfo

\* The CodeImproveResponse returned when the LLM answered with raw.
OkResponse(req, raw) ==
    LET parsed == parse_gemini_response(raw)
        whole_file == WholeFileOf(req)
    IN  [kind |-> "ok",
         status |-> 200,
         detail |-> <<>>,
         handled_by |-> "",
         raised |-> "",
         improvedCode |-> parsed.improved_code,
         explanation |-> parsed.explanation,
         preciseEdits |-> PreciseEditsFor(parsed.improved_code, whole_file),
         diffInfo |-> DiffInfoFor(ModeOf(req), req.code, parsed.improved_code, whole_file)]

\* Requests.
PromptSamples == { <<>>, <<" ", "\n">>, <<"p">> }
CodeSamples == { <<>>, <<" ">>, <<"a", "\n", "b">> }
MessageSamples ==
    { [role |-> "user", content |-> <<"q">>],
      [role |-> "assistant", content |-> <<"r">>],
      [role |-> "system", content |-> <<"s">>] }
Histories ==
    { None(<<>>) } \cup
    { Some(h) : h \in UNION { [1..n -> MessageSamples] : n \in 0..MaxHistory } }
Requests ==
    { [kind |-> "request", code |-> c, prompt |-> p, conversationHistory |-> h, wholeFile |-> w] :
        c \in CodeSamples, p \in PromptSamples, h \in Histories,
        w \in { None(FALSE), Some(FALSE), Some(TRUE) } }

\* Raw texts the LLM may return: no fence, or one fence of FenceSamples
\* followed by prose.
RawSamples ==
    { <<"t">> } \cup
    { FENCE \o FenceContent(f) \o FENCE \o <<"\n", "t">> : f \in FenceSamples } \cup
    { FENCE \o <<"a", "\n", "b", "\n">> \o FENCE,
      FENCE \o <<"p", "y", "\n", "a", "\n", "b", "\n">> \o FENCE }

Init ==
    /\ pc = "idle"
    /\ request = NoRequest
    /\ full_prompt = <<>>
    /\ llm_calls = 0
    /\ response = NoResponse
    /\ arg = NoArg
    /\ result = NoResult

\* The handler up to its suspension point: the prompt check, the prompt
\* construction and the call of generate_code or improve_code; an empty
\* prompt ends the request here.
ReceiveRequest(req) ==
    /\ pc = "idle"
    /\ request' = req
    /\ IF IsBlank(req.prompt)
       THEN /\ response' = ErrorResponse(EmptyPromptError)
            /\ pc' = "done"
            /\ UNCHANGED <<full_prompt, llm_calls>>
       ELSE /\ full_prompt' = BuildPrompt(req)
            /\ llm_calls' = llm_calls + 1
            /\ pc' = "awaiting"
            /\ UNCHANGED response
    /\ UNCHANGED <<arg, result>>

\* The LLM returns raw text: the service parses it and computes diff_info,
\* the endpoint extracts the precise edits and returns the response.
ServiceReturns(raw) ==
    /\ pc = "awaiting"
    /\ response' = OkResponse(request, raw)
    /\ arg' = [kind |-> "llm", raw |-> raw]
    /\ pc' = "done"
    /\ UNCHANGED <<request, full_prompt, llm_calls, result>>

\* Mutant of ServiceFails: the failed call is made again.
ServiceFails_retry(e) ==
    /\ pc = "awaiting"
    /\ llm_calls' = llm_calls + 1
    /\ arg' = [kind |-> "llm_error", error |-> e]
    /\ UNCHANGED <<pc, request, full_prompt, response, result>>

\* The call of the LLM client raises e: the service re-raises it as one of
\* its own errors (or as it is) and the endpoint answers with an HTTP error.
ServiceFails(e) ==
    /\ pc = "awaiting"
    /\ response' = ErrorResponse(service_raises(e))
    /\ arg' = [kind |-> "llm_error", error |-> e]
    /\ pc' = "done"
    /\ UNCHANGED <<request, full_prompt, llm_calls, result>>

Next ==
    \/ \E req \in Requests : ReceiveRequest(req)
    \/ \E raw \in RawSamples : ServiceReturns(raw)
    \/ \E e \in ClientErrors : ServiceFails(e)

Spec == Init /\ [][Next]_vars

----------------------------------------------------------------------------
(* generate_diff_info applied to a pair of texts.                          *)

DiffLineSamples == { <<"a">>, <<"-", "-", "a">>, <<"+", "+", "a">> }

DiffLineSeqs == UNION { [1..n -> DiffLineSamples] : n \in 0..MaxDiffLines }

\* The texts of the example of the specification: a, b, c against a, x, c.
ExampleOriginal == <<"a", "\n", "b", "\n", "c">>
ExampleImproved == <<"a", "\n", "x", "\n", "c">>

\* Pairs of texts: lines joined by newlines, both with or both without a
\* final newline; and the example.
DiffInputs ==
    { [kind |-> "diff",
       original_code |-> Join(o, NL) \o (IF nl /\ o # <<>> THEN NL ELSE <<>>),
       improved_code |-> Join(i, NL) \o (IF nl /\ i # <<>> THEN NL ELSE <<>>)] :
        o \in DiffLineSeqs, i \in DiffLineSeqs, nl \in BOOLEAN }
    \cup { [kind |-> "diff", original_code |-> ExampleOriginal, improved_code |-> ExampleImproved] }

InitDiff ==
    /\ pc = "call"
    /\ arg \in DiffInputs
    /\ result = NoResult
    /\ request = NoRequest
    /\ full_prompt = <<>>
    /\ llm_calls = 0
    /\ response = NoResponse

GenerateDiffInfo ==
    /\ pc = "call"
    /\ arg.kind = "diff"
    /\ result' = [kind |-> "diff",
                  info |-> generate_diff_info(arg.original_code, arg.improved_code)]
    /\ pc' = "return"
    /\ UNCHANGED <<arg, request, full_prompt, llm_calls, response>>

NextDiff == GenerateDiffInfo

SpecDiff == InitDiff /\ [][NextDiff]_vars

----------------------------------------------------------------------------
(* format_explanation_as_html applied to a text.                           *)

HtmlLineSamples ==
    { <<"-", " ", "a">>,
      <<"*", " ", "b">>,
      <<"t">>,
      <<>>,
      <<" ">>,
      <<" ", "-", " ", " ", "c", " ">>,
      <<"-">>,
      <<A_CIRC, EURO, CENT, " ", "d">>,
      <<"<", "u", "l", ">">> }

\* The example of the specification and the HTML it gives.
ExampleExplanation ==
    <<"-", " ", "i", "t", "e", "m", "1", "\n", "-", " ", "i", "t", "e", "m", "2", "\n",
      "\n", "N", "o", "r", "m", "a", "l", " ", "l", "i", "n", "e">>
ExampleHtml ==
    UL_OPEN \o LI(<<"i", "t", "e", "m", "1">>) \o LI(<<"i", "t", "e", "m", "2">>) \o UL_CLOSE
        \o BR \o P(<<"N", "o", "r", "m", "a", "l", " ", "l", "i", "n", "e">>)

HtmlInputs ==
    { [kind |-> "html", lines |-> ls, text |-> Join(ls, NL)] :
        ls \in UNION { [1..n -> HtmlLineSamples] : n \in 1..MaxHtmlLines } }
    \cup { [kind |-> "html", lines |-> Split(ExampleExplanation, NL), text |-> ExampleExplanation] }

InitHtml ==
    /\ pc = "call"
    /\ arg \in HtmlInputs
    /\ result = NoResult
    /\ request = NoRequest
    /\ full_prompt = <<>>
    /\ llm_calls = 0
    /\ response = NoResponse

FormatExplanation ==
    /\ pc = "call"
    /\ arg.kind = "html"
    /\ result' = [kind |-> "html", html |-> format_explanation_as_html(arg.text)]
    /\ pc' = "return"
    /\ UNCHANGED <<arg, request, full_prompt, llm_calls, response>>

NextHtml == FormatExplanation

SpecHtml == InitHtml /\ [][NextHtml]_vars

----------------------------------------------------------------------------
(* Concurrent requests: one coroutine of improve_code_endpoint per request, *)
(* each with its own locals, suspended only at its await.  pc, request,     *)
(* full_prompt, llm_calls and response hold one value per coroutine; arg    *)
(* records what the LLM answered to each, which coroutine started last and  *)
(* whether two were ever in flight together.                                *)

Handlers == 1..MaxHandlers

ConcRequests ==
    { [kind |-> "request", code |-> <<>>, prompt |-> <<>>,
       conversationHistory |-> None(<<>>), wholeFile |-> None(FALSE)],
      [kind |-> "request", code |-> <<>>, prompt |-> <<"p">>,
       conversationHistory |-> None(<<>>), wholeFile |-> None(FALSE)],
      [kind |-> "request", code |-> <<"a", "\n", "b">>, prompt |-> <<"p">>,
       conversationHistory |-> None(<<>>), wholeFile |-> Some(FALSE)],
      [kind |-> "request", code |-> <<"a", "\n", "b">>, prompt |-> <<"p">>,
       conversationHistory |-> Some(<<[role |-> "user", content |-> <<"q">>]>>),
       wholeFile |-> Some(TRUE)] }

ConcRaws ==
    { <<"t">>,
      FENCE \o <<"1", ":", "2", ":", "f", "\n", "x", "\n">> \o FENCE \o <<"\n", "t">>,
      FENCE \o <<"a", "\n", "b", "\n">> \o FENCE }

ConcErrors == { e \in ClientErrors : e.cls \in {"RateLimitException", "RuntimeError"} /\ ~e.mentions_api_key }

NoOutcome == [kind |-> "none"]

InitConc ==
    /\ pc = [i \in Handlers |-> "idle"]
    /\ request = [i \in Handlers |-> NoRequest]
    /\ full_prompt = [i \in Handlers |-> <<>>]
    /\ llm_calls = [i \in Handlers |-> 0]
    /\ response = [i \in Handlers |-> NoResponse]
    /\ arg = [kind |-> "conc", outcome |-> [i \in Handlers |-> NoOutcome],
              last |-> 1, overlapped |-> FALSE]
    /\ result = NoResult

\* Mutant of HandlerRequest: the request is kept in a module-level variable,
\* which holds the request of the coroutine that started last.
HandlerRequest_shared(i) == request[arg.last]

\* The parameter request of coroutine i.
HandlerRequest(i) == request[i]

\* Coroutine i runs from its start to its await (or to the end, for an
\* empty prompt).
ConcReceive(i, req) ==
    /\ pc[i] = "idle"
    /\ request' = [request EXCEPT ![i] = req]
    /\ arg' = [arg EXCEPT !.last = i,
                          !.overlapped = @ \/ \E j \in Handlers : pc[j] = "awaiting"]
    /\ IF IsBlank(req.prompt)
       THEN /\ response' = [response EXCEPT ![i] = ErrorResponse(EmptyPromptError)]
            /\ pc' = [pc EXCEPT ![i] = "done"]
            /\ UNCHANGED <<full_prompt, llm_calls>>
       ELSE /\ full_prompt' = [full_prompt EXCEPT ![i] = BuildPrompt(req)]
            /\ llm_calls' = [llm_calls EXCEPT ![i] = @ + 1]
            /\ pc' = [pc EXCEPT ![i] = "awaiting"]
            /\ UNCHANGED response
    /\ UNCHANGED result

\* The await of coroutine i returns raw; the coroutine runs to its end.
ConcReturns(i, raw) ==
    /\ pc[i] = "awaiting"
    /\ response' = [response EXCEPT ![i] = OkResponse(HandlerRequest(i), raw)]
    /\ arg' = [arg EXCEPT !.outcome[i] = [kind |-> "raw", raw |-> raw]]
    /\ pc' = [pc EXCEPT ![i] = "done"]
    /\ UNCHANGED <<request, full_prompt, llm_calls, result>>

\* The await of coroutine i raises e; the coroutine ends with an HTTP error.
ConcFails(i, e) ==
    /\ pc[i] = "awaiting"
    /\ response' = [response EXCEPT ![i] = ErrorResponse(service_raises(e))]
    /\ arg' = [arg EXCEPT !.outcome[i] = [kind |-> "error", error |-> e]]
    /\ pc' = [pc EXCEPT ![i] = "done"]
    /\ UNCHANGED <<request, full_prompt, llm_calls, result>>

NextConc ==
    \/ \E i \in Handlers, req \in ConcRequests : ConcReceive(i, req)
    \/ \E i \in Handlers, raw \in ConcRaws : ConcReturns(i, raw)
    \/ \E i \in Handlers, e \in ConcErrors : ConcFails(i, e)

SpecConc == InitConc /\ [][NextConc]_vars

----------------------------------------------------------------------------
(* Vocabulary of the claims about fence blocks.                            *)

AllDigits(s) == s # <<>> /\ \A i \in 1..Len(s) : s[i] \in Digits

\* int() of Python accepts surrounding whitespace and a sign.
PyIntBody(s) ==
    LET t == Strip(s)
    IN  IF t # <<>> /\ t[1] \in {"+", "-"} THEN Tail(t) ELSE t

PyIntParseable(s) == AllDigits(PyIntBody(s))

PyIntValue(s) ==
    IF Strip(s) # <<>> /\ Strip(s)[1] = "-" THEN 0 - int(PyIntBody(s)) ELSE int(PyIntBody(s))

\* The colon-separated fields of a header line, the third and later rejoined.
Fields(line) == Split(line, <<":">>)
FilePath(line) == Join(SubSeq(Fields(line), 3, Len(Fields(line))), <<":">>)

\* A header line start:end:filepath with start and end parseable as integers.
IsIntLineSpec(line) ==
    /\ Len(Fields(line)) >= 3
    /\ PyIntParseable(Fields(line)[1])
    /\ PyIntParseable(Fields(line)[2])
    /\ FilePath(line) # <<>>

\* A header line digits:digits:filepath.
IsDigitLineSpec(line) ==
    /\ Len(Fields(line)) >= 3
    /\ AllDigits(Fields(line)[1])
    /\ AllDigits(Fields(line)[2])
    /\ FilePath(line) # <<>>

\* The fence content with surrounding whitespace removed, its first line and
\* what follows the first line.
Trimmed(f) == Strip(FenceContent(f))
FirstLine(f) == Split1(Trimmed(f), NL)[1]
AfterFirstLine(f) ==
    IF Len(Split1(Trimmed(f), NL)) = 2 THEN Split1(Trimmed(f), NL)[2] ELSE <<>>

\* C4 as stated: the header line is the one of the raw text, the integers are
\* whatever int() parses, the code is the body up to trailing whitespace.
RawSpecFence(f) == IsIntLineSpec(f.header)
RawSpecEdit(f) ==
    [startLine |-> PyIntValue(Fields(f.header)[1]),
     endLine |-> PyIntValue(Fields(f.header)[2]),
     filepath |-> FilePath(f.header),
     code |-> RStrip(f.body)]

RECURSIVE RawSpecEdits(_)
RawSpecEdits(blocks) ==
    IF blocks = <<>> THEN <<>>
    ELSE (IF RawSpecFence(Head(blocks)) THEN <<RawSpecEdit(Head(blocks))>> ELSE <<>>)
         \o RawSpecEdits(Tail(blocks))

\* s without its leading, and without its trailing, backquotes.
RECURSIVE DropLeadingBQ(_)
DropLeadingBQ(s) == IF s # <<>> /\ Head(s) = BQ THEN DropLeadingBQ(Tail(s)) ELSE s
RECURSIVE DropTrailingBQ(_)
DropTrailingBQ(s) ==
    IF s # <<>> /\ s[Len(s)] = BQ THEN DropTrailingBQ(SubSeq(s, 1, Len(s) - 1)) ELSE s

\* The first line of the trimmed content, backquotes that directly follow the
\* opening delimiter not counted.
HeaderLine(f) == DropLeadingBQ(FirstLine(f))

\* C4 as amended: the header line is the first line of the trimmed content
\* and its line fields are digit strings.
DigitSpecFence(f) == IsDigitLineSpec(HeaderLine(f))
DigitSpecEdit(f) ==
    [startLine |-> int(Fields(HeaderLine(f))[1]),
     endLine |-> int(Fields(HeaderLine(f))[2]),
     filepath |-> FilePath(HeaderLine(f)),
     code |-> DropTrailingBQ(AfterFirstLine(f))]

RECURSIVE DigitSpecEdits(_)
DigitSpecEdits(blocks) ==
    IF blocks = <<>> THEN <<>>
    ELSE (IF DigitSpecFence(Head(blocks)) THEN <<DigitSpecEdit(Head(blocks))>> ELSE <<>>)
         \o DigitSpecEdits(Tail(blocks))

Blocks == arg.shape.blocks
Parsed == pc = "return" /\ arg.kind = "parse"

\* C4 (as stated; refuted): whenever the raw response holds a fence whose
\* header line is start:end:filepath with start and end parseable as integers,
\* preciseEdits has exactly one CodeEdit per such fence, in order, with the
\* fields of the fence.
C4_Original ==
    (Parsed /\ \E i \in 1..Len(Blocks) : RawSpecFence(Blocks[i]))
        => result.precise_edits = RawSpecEdits(Blocks)

\* C4 (amended): preciseEdits has exactly one CodeEdit per fence whose
\* trimmed content begins with a line digits:digits:filepath (filepath not
\* empty), in the order of the fences, with startLine and endLine the values
\* of the digit strings, filepath the rest of that line and code the trimmed
\* content after that line; backquotes at the very start of the content and
\* at the very end of the code are not part of either.
C4_PreciseEditsPerDigitFence ==
    Parsed => result.precise_edits = DigitSpecEdits(Blocks)

\* Witness of C4: two fences with different digit headers, both extracted.
C4_Witness ==
    /\ Parsed
    /\ Len(Blocks) = 2
    /\ DigitSpecFence(Blocks[1]) /\ DigitSpecFence(Blocks[2])
    /\ Blocks[1].header # Blocks[2].header
    /\ Len(result.precise_edits) = 2
    /\ result.precise_edits[1].filepath = FilePath(Blocks[1].header)

\* The code of a block without line-spec header, the language-tag line dropped.
TagDropped(f) ==
    IF Len(Split1(Trimmed(f), NL)) = 2 /\ Len(SplitWs(FirstLine(f))) <= 2
    THEN AfterFirstLine(f)
    ELSE Trimmed(f)

\* The body C5 speaks of, read off the raw text: the language-tag header line
\* is dropped, any other fence is kept whole.
RawBody(f) ==
    IF f.has_body /\ f.header # <<>> /\ f.header[1] # " " /\ Len(SplitWs(f.header)) <= 2
    THEN f.body
    ELSE FenceContent(f)

\* C5 (as stated; refuted): for a single fence block without line-spec
\* header, preciseEdits is empty and codeRepresentation is the fence body, the
\* code text itself (compared up to surrounding whitespace).
C5_Original ==
    (Parsed /\ Len(Blocks) = 1 /\ Len(Fields(Blocks[1].header)) < 3)
        => /\ result.precise_edits = <<>>
           /\ Strip(result.improved_code) = Strip(RawBody(Blocks[1]))

\* C5 (amended): for a single fence block whose trimmed content does not
\* begin with a line of three or more colon-separated fields, preciseEdits is
\* empty and codeRepresentation is the code re-wrapped in a bare fence:
\* FENCE, newline, code, FENCE, where code is the trimmed content without its
\* first line when there are further lines and the first line has at most two
\* whitespace-separated tokens.
C5_SingleBareBlock ==
    (Parsed /\ Len(Blocks) = 1 /\ Len(Fields(FirstLine(Blocks[1]))) < 3)
        => /\ result.precise_edits = <<>>
           /\ result.improved_code = FENCE \o NL \o TagDropped(Blocks[1]) \o FENCE

\* Witness of C5: a single block with a language tag, parsed.
C5_Witness ==
    /\ Parsed
    /\ Len(Blocks) = 1
    /\ Blocks[1].header = <<"p", "y">>
    /\ TagDropped(Blocks[1]) # Trimmed(Blocks[1])
    /\ result.improved_code = FENCE \o NL \o TagDropped(Blocks[1]) \o FENCE

\* A header of three or more colon-separated fields whose line fields are
\* not integers: as int() reads them, and as digit strings.
MalformedInt(line) ==
    /\ Len(Fields(line)) >= 3
    /\ ~(PyIntParseable(Fields(line)[1]) /\ PyIntParseable(Fields(line)[2]))
MalformedDigits(line) ==
    /\ Len(Fields(line)) >= 3
    /\ ~(AllDigits(Fields(line)[1]) /\ AllDigits(Fields(line)[2]))

CountBlocks(blocks, Keep(_)) == Cardinality({i \in 1..Len(blocks) : Keep(blocks[i])})

NotMalformedRaw(f) == ~MalformedInt(f.header)
NotMalformedTrimmed(f) == ~MalformedDigits(HeaderLine(f))

\* C6 (as stated; refuted): a fence whose header has at least two colons but
\* non-integer line fields is excluded from preciseEdits and appears in
\* codeRepresentation as a bare block, the fence without the header.
C6_Original ==
    Parsed =>
        /\ Len(result.precise_edits) <= CountBlocks(Blocks, NotMalformedRaw)
        /\ \A i \in 1..Len(Blocks) :
              MalformedInt(Blocks[i].header) =>
                 Contains(result.improved_code,
                          FENCE \o NL \o RStrip(Blocks[i].body) \o FENCE)

\* C6 (amended): a fence whose trimmed content begins (leading backquotes
\* aside) with a line of three or more colon-separated fields, the first two
\* not both digit strings, is
\* excluded from preciseEdits (there are no more edits than other fences) and
\* appears in codeRepresentation with that header line re-attached: FENCE,
\* header line, newline, the content after the header line, FENCE.
C6_MalformedKeptWithHeader ==
    Parsed =>
        /\ Len(result.precise_edits) <= CountBlocks(Blocks, NotMalformedTrimmed)
        /\ \A i \in 1..Len(Blocks) :
              MalformedDigits(HeaderLine(Blocks[i])) =>
                 Contains(result.improved_code,
                          FENCE \o FirstLine(Blocks[i]) \o NL
                                \o AfterFirstLine(Blocks[i]) \o FENCE)

\* Witness of C6: the only fence has the header a:b:f; it yields no edit and
\* the code representation still holds its code.
C6_Witness ==
    /\ Parsed
    /\ Len(Blocks) = 1
    /\ Blocks[1].header = <<"a", ":", "b", ":", "f">>
    /\ result.precise_edits = <<>>
    /\ Contains(result.improved_code, <<"a", ":", "b", ":", "f", "\n", "x">> \o FENCE)


----------------------------------------------------------------------------
(* Claims about the endpoint.                                              *)

Answered == pc = "done"
CallFailed == pc = "done" /\ arg.kind = "llm_error"

\* C1 (as stated; refuted by the code): a request whose prompt is empty or
\* whitespace-only is answered with status 400 and the detail "Prompt cannot
\* be empty", whatever its code, conversationHistory and wholeFile.
C1_EmptyPromptIs400 ==
    (Answered /\ IsBlank(request.prompt))
        => /\ response.status = 400
           /\ response.detail = <<"Prompt cannot be empty">>

\* C2: per request the LLM is called at most once: not at all when the
\* prompt is empty or whitespace-only, exactly once otherwise; a failed call
\* ends the request with an error and is not made again.
C2_AtMostOneCall ==
    /\ llm_calls \in {0, 1}
    /\ pc = "idle" => llm_calls = 0
    /\ pc = "awaiting" => (llm_calls = 1 /\ ~IsBlank(request.prompt))
    /\ Answered => llm_calls = (IF IsBlank(request.prompt) THEN 0 ELSE 1)
    /\ CallFailed => (response.kind = "error" /\ llm_calls = 1)

\* Witness of C2: a call that failed, answered with an error after one call.
C2_Witness ==
    /\ CallFailed
    /\ llm_calls = 1
    /\ response.kind = "error"
    /\ ~IsBlank(request.prompt)

\* C3: when the call fails the status follows the class of the error that
\* leaves the service: RateLimitError 429, ModelError 503, APIKeyError 500,
\* any other AIServiceError 500, EnvironmentError 500, anything else 500 with
\* the detail "Error processing code"; and the generic AIServiceError clause
\* handles no error of a subclass.
C3_StatusByErrorVariant ==
    CallFailed =>
        /\ response.raised = "RateLimitError"
              => (response.status = 429 /\ response.handled_by = "RateLimitError")
        /\ response.raised = "ModelError"
              => (response.status = 503 /\ response.handled_by = "ModelError")
        /\ response.raised = "APIKeyError"
              => (response.status = 500 /\ response.handled_by = "APIKeyError")
        /\ response.raised = "AIServiceError"
              => (response.status = 500 /\ response.handled_by = "AIServiceError")
        /\ response.raised = "EnvironmentError"
              => (response.status = 500 /\ response.handled_by = "EnvironmentError")
        /\ response.raised \notin {"RateLimitError", "ModelError", "APIKeyError",
                                    "AIServiceError", "EnvironmentError"}
              => /\ response.status = 500
                 /\ response.handled_by = "Exception"
                 /\ response.detail = <<"Error processing code">>
        /\ response.handled_by = "AIServiceError" => response.raised = "AIServiceError"

\* Witness of C3: a rate-limit error of the client answered with 429.
C3_Witness ==
    /\ CallFailed
    /\ arg.error.cls = "RateLimitException"
    /\ response.raised = "RateLimitError"
    /\ response.status = 429

\* C7: when wholeFile is true, preciseEdits of the response is empty for
\* every raw LLM response, in GENERATE and in IMPROVE mode.
C7_WholeFileNoPreciseEdits ==
    (Answered /\ response.kind = "ok" /\ WholeFileOf(request))
        => response.preciseEdits = <<>>

\* Witness of C7: wholeFile is true, the code representation holds a fence
\* with a digits:digits:filepath header, and preciseEdits is empty.
C7_Witness ==
    /\ Answered
    /\ response.kind = "ok"
    /\ WholeFileOf(request)
    /\ extract_precise_edits(response.improvedCode) # <<>>
    /\ response.preciseEdits = <<>>

----------------------------------------------------------------------------
(* Claims about generate_diff_info.                                        *)

DiffReturned == pc = "return" /\ arg.kind = "diff"

\* C8: generate_diff_info of two identical texts returns additions 0,
\* deletions 0, changes 0 and the empty diff.
C8_IdenticalInputsNoDiff ==
    (DiffReturned /\ arg.original_code = arg.improved_code)
        => result.info = [additions |-> 0, deletions |-> 0, changes |-> 0, diff |-> <<>>]

\* Witness of C8: a text of several lines that ends with a newline, diffed
\* against itself.
C8_Witness ==
    /\ DiffReturned
    /\ arg.original_code = arg.improved_code
    /\ Len(splitlines(arg.original_code)) >= 2
    /\ arg.original_code[Len(arg.original_code)] = "\n"
    /\ result.info.diff = <<>>

\* The lines of the returned diff that start with sign and not with three
\* of it.
SignedLines(sign) ==
    LET lines == Split(result.info.diff, NL)
    IN  Cardinality({ i \in 1..Len(lines) :
                        /\ StartsWith(lines[i], <<sign>>)
                        /\ ~StartsWith(lines[i], <<sign, sign, sign>>) })

\* C9: changes = min(rawAdditions, rawDeletions), additions = rawAdditions -
\* changes, deletions = rawDeletions - changes; none is negative and one of
\* additions and deletions is 0; and a, b, c against a, x, c gives changes 1,
\* additions 0, deletions 0.
C9_PairedChangeHeuristic ==
    DiffReturned =>
        /\ result.info.changes = Min(SignedLines("+"), SignedLines("-"))
        /\ result.info.additions = SignedLines("+") - result.info.changes
        /\ result.info.deletions = SignedLines("-") - result.info.changes
        /\ result.info.additions >= 0 /\ result.info.deletions >= 0
        /\ result.info.changes >= 0
        /\ (result.info.additions = 0 \/ result.info.deletions = 0)
        /\ (arg.original_code = ExampleOriginal /\ arg.improved_code = ExampleImproved)
              => (/\ result.info.changes = 1
                  /\ result.info.additions = 0
                  /\ result.info.deletions = 0)

\* Witness of C9: the example, with one changed line.
C9_Witness ==
    /\ DiffReturned
    /\ arg.original_code = ExampleOriginal
    /\ arg.improved_code = ExampleImproved
    /\ SignedLines("+") = 1 /\ SignedLines("-") = 1
    /\ result.info.changes = 1

----------------------------------------------------------------------------
(* Claims about format_explanation_as_html.                                *)

\* The rendering C10 describes: the markers are "- " and "* ".
IsMarked(stripped) == StartsWith(stripped, <<"-", " ">>) \/ StartsWith(stripped, <<"*", " ">>)

RECURSIVE Rendered(_, _)
Rendered(lines, open) ==
    IF lines = <<>> THEN (IF open THEN UL_CLOSE ELSE <<>>)
    ELSE IF Strip(Head(lines)) = <<>>
    THEN (IF open THEN UL_CLOSE ELSE <<>>) \o BR \o Rendered(Tail(lines), FALSE)
    ELSE IF IsMarked(Strip(Head(lines)))
    THEN (IF open THEN <<>> ELSE UL_OPEN)
            \o LI(Strip(SubSeq(Strip(Head(lines)), 3, Len(Strip(Head(lines))))))
            \o Rendered(Tail(lines), TRUE)
    ELSE (IF open THEN UL_CLOSE ELSE <<>>) \o P(Strip(Head(lines)))
            \o Rendered(Tail(lines), FALSE)

\* C10 (as stated; refuted by the code): the HTML is built line by line: a
\* trimmed line starting with "- " or "* " opens a list if none is open and
\* becomes a list item without its marker, a blank line closes an open list
\* and gives a line break, any other line closes an open list and gives a
\* paragraph, an open list is closed at the end; and the example gives
\* <ul><li>item1</li><li>item2</li></ul><br><p>Normal line</p>.
C10_LineByLineHtml ==
    (pc = "return" /\ arg.kind = "html")
        => /\ result.html = Rendered(arg.lines, FALSE)
           /\ arg.text = ExampleExplanation => result.html = ExampleHtml


----------------------------------------------------------------------------
(* Claims about responses without fence, and about the order of segments.  *)

NoFence == ~Contains(arg.raw, FENCE)

\* C11: for a non-empty raw response without any fence delimiter the code
\* representation is empty and the explanation is the HTML formatting of the
\* whole raw text; and since a pair of empty values is replaced by the raw
\* text and the raw text in <p>, the two values returned are never both
\* empty.
C11_NoFenceAllExplanation ==
    Parsed =>
        /\ (NoFence /\ arg.raw # <<>>)
              => /\ result.improved_code = <<>>
                 /\ result.explanation = format_explanation_as_html(arg.raw)
        /\ ~(result.improved_code = <<>> /\ result.explanation = <<>>)

\* Witness of C11: a response of three lines without fence, one of them a
\* list item, all of it in the explanation.
C11_Witness ==
    /\ Parsed
    /\ NoFence
    /\ arg.raw = <<"-", " ", "a", "\n", "t">>
    /\ result.improved_code = <<>>
    /\ result.explanation = UL_OPEN \o LI(<<"a">>) \o UL_CLOSE \o P(<<"t">>)


\* C12: the parsing layer never raises: on every raw response no subscript
\* and no int() of parse_gemini_response, of extract_code_from_blocks (applied
\* to the raw text and to the code representation) and of
\* extract_precise_edits fails, so each returns a value.
C12_ParsingNeverRaises ==
    Parsed =>
        /\ ~parse_gemini_response_raises(arg.raw)
        /\ ~extract_code_from_blocks_raises(arg.raw)
        /\ ~extract_code_from_blocks_raises(result.improved_code)
        /\ ~extract_precise_edits_raises(result.improved_code)
        /\ result.kind = "parse"

\* Witness of C12: an unclosed fence that holds only a line-spec header,
\* parsed to a value with one edit.
C12_Witness ==
    /\ Parsed
    /\ Len(Blocks) = 1
    /\ ~arg.shape.closed
    /\ ~Blocks[1].has_body
    /\ Blocks[1].header = <<"1", ":", "2", ":", "f">>
    /\ Len(result.precise_edits) = 1
    /\ ~parse_gemini_response_raises(arg.raw)


----------------------------------------------------------------------------
(* Claims about concurrent requests.                                       *)

\* The response a request gets when it is served alone.
ServedAlone(req, outcome) ==
    IF IsBlank(req.prompt) THEN ErrorResponse(EmptyPromptError)
    ELSE IF outcome.kind = "raw" THEN OkResponse(req, outcome.raw)
    ELSE ErrorResponse(service_raises(outcome.error))

\* C13: in every interleaving of concurrent requests, each suspended only
\* at its own LLM call, the prompt sent and the response of a request are
\* those of the request served alone with the same input and the same answer
\* of the LLM: nothing of another request enters them.
C13_RequestsIndependent ==
    \A i \in Handlers :
        /\ pc[i] = "awaiting" => full_prompt[i] = BuildPrompt(request[i])
        /\ pc[i] = "done" => response[i] = ServedAlone(request[i], arg.outcome[i])
        /\ llm_calls[i] <= 1

\* Witness of C13: two requests that differ were in flight together and both
\* got their response from the LLM's answer.
C13_Witness ==
    /\ arg.kind = "conc"
    /\ arg.overlapped
    /\ pc[1] = "done" /\ pc[2] = "done"
    /\ request[1] # request[2]
    /\ response[1].kind = "ok" /\ response[2].kind = "ok"
    /\ response[1] # response[2]


----------------------------------------------------------------------------
(* Claims about the diff of whole-file IMPROVE mode.                       *)

WholeFileImprove ==
    /\ Answered
    /\ response.kind = "ok"
    /\ ModeOf(request) = "IMPROVE"
    /\ WholeFileOf(request)

\* The raw response that is one fence with the language tag py and the
\* request's code as its body.
EchoesCode == arg.raw = FENCE \o <<"p", "y", "\n">> \o request.code \o NL \o FENCE

\* C14 (as stated; refuted by the code): in whole-file IMPROVE mode the
\* improved code handed to the diff is the body of the first fence block
\* without the outer fence and the language-tag line only, so a response
\* whose fence body is the original code gives additions 0, deletions 0,
\* changes 0.
C14_FenceBodyHandedToDiff ==
    (WholeFileImprove /\ EchoesCode)
        => /\ extract_code_from_blocks(response.improvedCode) = request.code
           /\ response.diffInfo.present
           /\ response.diffInfo.info.additions = 0
           /\ response.diffInfo.info.deletions = 0
           /\ response.diffInfo.info.changes = 0


\* C15 (as stated; refuted by the code): in whole-file IMPROVE mode, when the
\* raw response holds no fence block, the improved code used for the diff is
\* the raw response text unchanged.
C15_NoFenceRawTextDiffed ==
    (WholeFileImprove /\ ~Contains(arg.raw, FENCE))
        => /\ extract_code_from_blocks(response.improvedCode) = arg.raw
           /\ response.diffInfo.present
           /\ response.diffInfo.info = generate_diff_info(request.code, arg.raw)


\* The lines of the returned diff after its two file-header lines that start
\* with sign: the inserted ("+") and the removed ("-") lines.
BodyLines(sign) ==
    LET lines == Split(result.info.diff, NL)
    IN  Cardinality({ i \in 3..Len(lines) : StartsWith(lines[i], <<sign>>) })

\* C16 (as stated; refuted by the code): rawAdditions is the number of
\* inserted lines of the unified diff and rawDeletions the number of removed
\* lines, only the two file-header lines left out, so that an inserted line
\* whose content begins with "++" and a removed line whose content begins
\* with "--" are counted.
C16_OnlyFileHeadersExcluded ==
    DiffReturned =>
        /\ result.info.changes = Min(BodyLines("+"), BodyLines("-"))
        /\ result.info.additions = BodyLines("+") - result.info.changes
        /\ result.info.deletions = BodyLines("-") - result.info.changes

\* C17: the response carries a diffInfo exactly when wholeFile is true and
\* the request's code is neither empty nor whitespace-only; in GENERATE mode
\* and whenever wholeFile is false it carries none.
C17_DiffInfoIffWholeFileImprove ==
    (Answered /\ response.kind = "ok")
        => (response.diffInfo.present
              <=> (WholeFileOf(request) /\ request.code # <<>> /\ Strip(request.code) # <<>>))

\* Witness of C17: a whole-file request with code, answered with a diffInfo
\* that counts a change.
C17_Witness ==
    /\ WholeFileImprove
    /\ response.diffInfo.present
    /\ response.diffInfo.info.diff # <<>>


----------------------------------------------------------------------------
(* Claims about the order of the segments.                                 *)

\* The segments of the split of the raw text on the fence delimiter, those
\* at odd and those at even 0-based indices.
Segments == Split(arg.raw, FENCE)
OddOf(segs) == [k \in 1..(Len(segs) \div 2) |-> segs[2 * k]]
EvenOf(segs) == [k \in 1..((Len(segs) + 1) \div 2) |-> segs[2 * k - 1]]

\* One odd-indexed segment re-wrapped: a first line of three or more
\* colon-separated fields is re-attached to the opening delimiter, any other
\* segment is put in a bare fence, its first line dropped or not.
Rewrapped(seg, drop) ==
    LET l == Split1(Strip(seg), NL)
        rest == IF Len(l) = 2 THEN l[2] ELSE <<>>
    IN  IF Len(Split(l[1], <<":">>)) >= 3
        THEN FENCE \o l[1] \o NL \o rest \o FENCE
        ELSE FENCE \o NL \o (IF drop THEN rest ELSE Strip(seg)) \o FENCE

\* C18: when the raw response holds a fence delimiter, codeRepresentation is
\* one re-wrapped fence per odd-indexed segment of the split on the
\* delimiter, in the order of the raw text, joined by blank lines, with the
\* line-spec header re-attached where one was recognised and a bare fence
\* otherwise; explanation is the HTML formatting of the even-indexed segments
\* joined by newlines, in order, and trimmed.
C18_SegmentsInOrder ==
    (Parsed /\ Contains(arg.raw, FENCE)) =>
        LET odd == OddOf(Segments)
            kept == [k \in 1..Len(odd) |-> Rewrapped(odd[k], FALSE)]
            dropped == [k \in 1..Len(odd) |-> Rewrapped(odd[k], TRUE)]
        IN  /\ \E drop \in [1..Len(odd) -> BOOLEAN] :
                  result.improved_code =
                      Join([k \in 1..Len(odd) |-> IF drop[k] THEN dropped[k] ELSE kept[k]],
                           <<"\n", "\n">>)
            /\ result.explanation =
                  format_explanation_as_html(Strip(Join(EvenOf(Segments), NL)))

\* Witness of C18: prose, a fence with a line-spec header, prose, a bare
\* fence, prose; the two fences differ and both are in the result.
C18_Witness ==
    /\ Parsed
    /\ arg.shape.closed /\ Len(Blocks) = 2
    /\ Len(Segments) = 5
    /\ Segments[1] # <<>> /\ Segments[3] # <<>>
    /\ Segments[2] = <<"1", ":", "2", ":", "f", "\n", "x", "\n">>
    /\ Segments[4] = <<"\n", "x", "\n">>
    /\ result.improved_code = FENCE \o <<"1", ":", "2", ":", "f", "\n", "x">> \o FENCE
                                \o <<"\n", "\n">> \o FENCE \o <<"\n", "x">> \o FENCE


\* The text of codeRepresentation between the bare opening delimiter with
\* its newline and the closing delimiter.
BareFenceCode(text) == SubSeq(text, Len(FENCE) + 2, Len(text) - Len(FENCE))

\* C19 (as stated; refuted by the code): for a fence without line-spec
\* header, the header line is the text between the opening delimiter and the
\* first newline; it is dropped as a language tag only when it is not empty,
\* does not start with a space and has at most two whitespace-separated
\* tokens, and when it is empty the entire fence content is kept as code,
\* a short first code line included (the code compared up to surrounding
\* whitespace).
C19_EmptyHeaderKeepsContent ==
    (/\ Parsed
     /\ Len(Blocks) = 1
     /\ Len(Fields(Blocks[1].header)) < 3
     /\ Len(Fields(FirstLine(Blocks[1]))) < 3)
        => /\ StartsWith(result.improved_code, FENCE \o NL)
           /\ Len(result.improved_code) >= 2 * Len(FENCE) + 1
           /\ Strip(BareFenceCode(result.improved_code)) = Strip(RawBody(Blocks[1]))


----------------------------------------------------------------------------
(* Claims about the prompt.                                                *)

\* One history message as the context block shows it, and the first n
\* messages of a history one after the other.
MessageLine(m) ==
    (IF m.role = "user" THEN <<"U", "s", "e", "r", ":", " ">>
     ELSE <<"A", "s", "s", "i", "s", "t", "a", "n", "t", ":", " ">>) \o m.content \o NL
RECURSIVE HistoryBlock(_, _)
HistoryBlock(h, n) == IF n = 0 THEN <<>> ELSE HistoryBlock(h, n - 1) \o MessageLine(h[n])

HasHistory == request.conversationHistory.present /\ request.conversationHistory.value # <<>>

\* C20: the prompt passed to generate_code or improve_code is the request's
\* prompt unchanged when conversationHistory is absent or empty; otherwise it
\* is the context block that renders every history message once, in the
\* given order, prefixed "User: " for the role user and "Assistant: " for any
\* other role, followed by the separator and the original prompt; the
\* construction is the same in GENERATE and in IMPROVE mode.
C20_PromptCarriesHistoryInOrder ==
    pc = "awaiting" =>
        full_prompt =
            IF HasHistory
            THEN ContextHeader
                   \o HistoryBlock(request.conversationHistory.value,
                                   Len(request.conversationHistory.value))
                   \o CurrentRequest \o request.prompt
            ELSE request.prompt

\* Witness of C20: a request with code and a history of a user message
\* followed by a message of another role is waiting for the LLM; the prompt
\* holds both, the user's first.
C20_Witness ==
    /\ pc = "awaiting"
    /\ HasHistory
    /\ ~IsBlank(request.code)
    /\ Len(request.conversationHistory.value) = 2
    /\ request.conversationHistory.value[1].role = "user"
    /\ request.conversationHistory.value[2].role = "system"
    /\ Contains(full_prompt, MessageLine(request.conversationHistory.value[1])
                               \o MessageLine(request.conversationHistory.value[2])
                               \o CurrentRequest)


----------------------------------------------------------------------------
(* Claims about the lists of the HTML.                                     *)

TagAt(s, i, tag) == i + Len(tag) - 1 <= Len(s) /\ SubSeq(s, i, i + Len(tag) - 1) = tag

\* The scan of s from position i on, a list being open or not: <ul> only
\* while no list is open, </ul> and <li> only while one is open, <p> and <br>
\* only while none is open, and no list open at the end.
RECURSIVE WellFormedLists(_, _, _)
WellFormedLists(s, i, open) ==
    IF i > Len(s) THEN ~open
    ELSE IF TagAt(s, i, <<"<", "u", "l", ">">>)
    THEN ~open /\ WellFormedLists(s, i + 4, TRUE)
    ELSE IF TagAt(s, i, <<"<", "/", "u", "l", ">">>)
    THEN open /\ WellFormedLists(s, i + 5, FALSE)
    ELSE IF TagAt(s, i, <<"<", "l", "i", ">">>)
    THEN open /\ WellFormedLists(s, i + 4, open)
    ELSE IF TagAt(s, i, <<"<", "p", ">">>)
    THEN ~open /\ WellFormedLists(s, i + 3, open)
    ELSE IF TagAt(s, i, <<"<", "b", "r", ">">>)
    THEN ~open /\ WellFormedLists(s, i + 4, open)
    ELSE WellFormedLists(s, i + 1, open)

Formatted == pc = "return" /\ arg.kind = "html"

\* C21 (as stated; refuted by the code): the output of
\* format_explanation_as_html is well-formed with respect to lists for every
\* input: scanned left to right, <ul> never comes while a list is open,
\* </ul> never while none is open, every <li> lies between a <ul> and its
\* </ul>, no <p> or <br> lies inside a list, and there are as many <ul> as
\* </ul> at the end.
C21_ListsWellFormed ==
    Formatted => WellFormedLists(result.html, 1, FALSE)

\* What holds of the code: the output is well-formed in this sense for every
\* input no line of which holds the character "<".
C21_WellFormedWithoutMarkup ==
    (Formatted /\ ~Contains(arg.text, <<"<">>)) => WellFormedLists(result.html, 1, FALSE)


----------------------------------------------------------------------------
(* Claims about the last statement of parse_gemini_response.               *)

\* C22: the explanation returned by parse_gemini_response is never the empty
\* string, whatever the raw response, the empty one included: the text
\* handed to format_explanation_as_html has at least one line and every line
\* gives at least one tag; hence the last statement, which replaces both
\* outputs by the raw text, is never executed.
C22_ExplanationNeverEmpty ==
    Parsed =>
        LET converted == ConvertedResponse(arg.raw)
        IN  /\ result.explanation # <<>>
            /\ converted.explanation # <<>>
            /\ ~AllElseFails(converted)

\* Witness of C22: the empty raw response is parsed; the code is empty and
\* the explanation is the line break of its one empty line.
C22_Witness ==
    /\ Parsed
    /\ arg.raw = <<>>
    /\ result.improved_code = <<>>
    /\ result.explanation = <<"<", "b", "r", ">">>

=============================================================================
